---- MODULE Spec2Model ----
(***************************************************************************)
(* SureFile (examples/surefile/src/maidsafe/surefile/surefile.cc): the     *)
(* password entry state, CreateUser / Login, the pending-additions table   *)
(* shared with the drive's callback context, and the config and credential *)
(* files.  The primary thread (main) and the drive's callback context (cb) *)
(* are two processes; each step of a handler that touches shared state     *)
(* (the mutex, the pending table, the files, the drive) is one action.     *)
(***************************************************************************)
EXTENDS Naturals, Sequences, FiniteSets, TLC

\* ------------------------------------------------------------------ bounds
\* Longest password text the model enters.
MaxLen == 1
\* Number of distinct identity pairs the drive hands out.
NumIds == 1

\* ------------------------------------------------------------ input sets
\* Characters a caller can type; "!" is the one kCharRegex rejects.
Chars == {"a", "!"}
ValidChars == {"a"}
\* Storage paths in key order (std::map iterates in this order); "nx" does
\* not exist on disk.
PathSeq == <<"p", "q">>
Paths == {PathSeq[i] : i \in 1..Len(PathSeq)}
NoDir == "nx"
\* Service aliases the drive reports; "CON" is an excluded filename.
Aliases == {"a", "b"}
Excluded == "CON"
\* (drive_root_id, service_root_id) pairs the drive hands to OnServiceAdded.
IdPairs == {[d |-> i, s |-> 10 + i] : i \in 1..NumIds}
NoIds == [d |-> 0, s |-> 0]
Fields == {"kPassword", "kConfirmationPassword", "other"}

\* -------------------------------------------------------------- Password
\* passport::detail::Password, as section 4.1 of the specification gives it.
NoBuf == [present |-> FALSE, text |-> <<>>, finalised |-> FALSE]
NewPassword == [present |-> TRUE, text |-> <<>>, finalised |-> FALSE]

InsertAt(s, pos, c) == SubSeq(s, 1, pos) \o <<c>> \o SubSeq(s, pos + 1, Len(s))
RemoveAt(s, pos) == SubSeq(s, 1, pos) \o SubSeq(s, pos + 2, Len(s))

\* Insert(position, characters): a finalised buffer is frozen against edits.
PwInsert(buf, pos, c) ==
  IF buf.finalised \/ pos > Len(buf.text) THEN buf
  ELSE [buf EXCEPT !.text = InsertAt(buf.text, pos, c)]

PwRemove(buf, pos) ==
  IF buf.finalised \/ pos >= Len(buf.text) THEN buf
  ELSE [buf EXCEPT !.text = RemoveAt(buf.text, pos)]

PwFinalise(buf) == [buf EXCEPT !.finalised = TRUE]

PwClear(buf) == [buf EXCEPT !.text = <<>>, !.finalised = FALSE]

PwIsValid(buf) == \A i \in 1..Len(buf.text) : buf.text[i] \in ValidChars

\* ---------------------------------------------------------------- crypto
\* crypto::Hash<SHA512>: one-way and, in the model, free of collisions.
Hash(text) == <<"sha512">> \o text

\* crypto::SymmEncrypt / SymmDecrypt: decryption under another key yields
\* bytes that are not the plaintext.
Garbage == <<"garbage">>
SymmEncrypt(pt, key, iv) == [key |-> key, iv |-> iv, pt |-> pt]
SymmDecrypt(ct, key, iv) ==
  IF ct.key = key /\ ct.iv = iv THEN ct.pt ELSE Garbage

SecurePassword(pw) == Hash(pw.text)
SecureKey(secure_password) == <<"key">> \o Tail(secure_password)
SecureIv(secure_password) == <<"iv">> \o Tail(secure_password)

\* Serialise / Parse of protobuf::Credentials; Identity's constructor throws
\* on a string that is not an identity, which is what Parse meets in garbage.
Serialise(ids) == <<"cred", ids.d, ids.s>>
Parse(pt) ==
  IF Len(pt) = 3 /\ pt[1] = "cred"
  THEN [ok |-> TRUE, ids |-> [d |-> pt[2], s |-> pt[3]]]
  ELSE [ok |-> FALSE, ids |-> NoIds]

\* ----------------------------------------------------------- config file
\* File content is a sequence of tokens: plain text tokens and one
\* ciphertext token kind.
Chr(s) == [kind |-> "chr", s |-> s, key |-> <<>>, iv |-> <<>>, pt |-> <<>>]
Ct(c) == [kind |-> "ct", s |-> "", key |-> c.key, iv |-> c.iv, pt |-> c.pt]
NL == Chr("\n")
kConfigFileComment == <<"# Please do NOT edit.", "\n">>
CommentTokens == <<Chr(kConfigFileComment[1]), NL>>

NoFile == [exists |-> FALSE, content |-> <<>>]
File(content) == [exists |-> TRUE, content |-> content]

EmptyMap == [x \in {} |-> ""]
MapPut(m, k, v) == [x \in DOMAIN m \cup {k} |-> IF x = k THEN v ELSE m[x]]
MapErase(m, k) == [x \in DOMAIN m \ {k} |-> m[x]]

\* The keys of a map in std::map's iteration order.
SortedKeys(m) == SelectSeq(PathSeq, LAMBDA k : k \in DOMAIN m)

\* std::getline over the content: the lines, without their terminators.
RECURSIVE GetLines(_, _, _)
GetLines(content, i, cur) ==
  IF i > Len(content) THEN (IF cur = <<>> THEN <<>> ELSE <<cur>>)
  ELSE IF content[i] = NL THEN <<cur>> \o GetLines(content, i + 1, <<>>)
  ELSE GetLines(content, i + 1, Append(cur, content[i]))

\* The grammar of the mapping line: *(key '>' value ':'); parsing stops at
\* the first token sequence that is not such a pair.
RECURSIVE ParsePairs(_, _, _)
ParsePairs(line, i, acc) ==
  IF /\ i + 3 <= Len(line)
     /\ line[i].kind = "chr" /\ line[i].s \notin {">", ":"}
     /\ line[i + 1] = Chr(">")
     /\ line[i + 2].kind = "chr" /\ line[i + 2].s \notin {">", ":"}
     /\ line[i + 3] = Chr(":")
  THEN ParsePairs(line, i + 4,
                  IF line[i].s \in DOMAIN acc THEN acc
                  ELSE MapPut(acc, line[i].s, line[i + 2].s))
  ELSE [map |-> acc, rest |-> i]

\* karma::format(*(string << '>' << string << ':'), service_pairs)
RECURSIVE FormatPairs(_, _)
FormatPairs(m, keys) ==
  IF keys = <<>> THEN <<>>
  ELSE <<Chr(Head(keys)), Chr(">"), Chr(m[Head(keys)]), Chr(":")>>
       \o FormatPairs(m, Tail(keys))

\* SureFile::ReadConfigFile: the mapping, and whether configuration_error
\* was signalled.
ReadConfigFile(file) ==
  LET lines == GetLines(file.content, 1, <<>>)
  IN IF Len(lines) < 2 THEN [map |-> EmptyMap, error |-> FALSE]
     ELSE LET r == ParsePairs(lines[2], 1, EmptyMap)
          IN [map |-> r.map, error |-> r.rest # Len(lines[2]) + 1]

\* SureFile::EncryptComment, for a password whose string() is readable.
EncryptComment(pw) ==
  LET secure_password == SecurePassword(pw)
  IN SymmEncrypt(kConfigFileComment, SecureKey(secure_password),
                 SecureIv(secure_password))

\* SureFile::WriteConfigFile: the content handed to WriteFile.
ConfigContent(service_pairs, pw) ==
  IF DOMAIN service_pairs = {}
  THEN <<Chr("#"), Ct(EncryptComment(pw)), NL>>
  ELSE CommentTokens \o FormatPairs(service_pairs, SortedKeys(service_pairs))

\* Mutant of CheckConfigFileContent: any content passes.
CheckConfigFileContent_Any(content, pw) == TRUE

\* SureFile::CheckConfigFileContent: whether the content, less its first and
\* last characters, decrypts to the comment under the password's key.
CheckConfigFileContent(content, pw) ==
  LET secure_password == SecurePassword(pw)
      cipher_text == SubSeq(content, 2, Len(content) - 1)
  IN /\ Len(cipher_text) = 1
     /\ cipher_text[1].kind = "ct"
     /\ SymmDecrypt(cipher_text[1], SecureKey(secure_password),
                    SecureIv(secure_password)) = kConfigFileComment

\* SureFile::CheckValid
CheckValid(storage_path, service_alias) ==
  storage_path \in Paths /\ service_alias # Excluded

\* ------------------------------------------------------------------ state
VARIABLES
  logged_in,              \* logged_in_
  password,               \* password_
  confirmation_password,  \* confirmation_password_
  mounted,                \* drive_ exists and its mount thread runs
  pending,                \* pending_service_additions_: alias -> ids
  mutex,                  \* mutex_: "free" or its holder
  config,                 \* the file at kConfigFilePath
  cred,                   \* storage path -> the file kCredentialsFilename there
  main,                   \* the primary thread: its call, position and locals
  cb,                     \* the drive's callback context, likewise
  delivered               \* history: OnServiceAdded(A) ran and no call has erased its entry since

vars == <<logged_in, password, confirmation_password, mounted, pending, mutex,
          config, cred, main, cb, delivered>>

EmptyPending == [x \in {} |-> NoIds]
NoCred == [exists |-> FALSE, key |-> <<>>, iv |-> <<>>, pt |-> <<>>]
CredFile(c) == [exists |-> TRUE, key |-> c.key, iv |-> c.iv, pt |-> c.pt]

Idle == [pc |-> "idle", op |-> "", path |-> "", alias |-> "", result |-> "",
         stage |-> "", drv |-> <<>>, ids |-> NoIds, pend0 |-> EmptyPending,
         service_pairs |-> EmptyMap, consumed |-> FALSE, redelivered |-> FALSE]
CbIdle == [pc |-> "idle", alias |-> "", new_alias |-> "", service_pairs |-> EmptyMap]

\* A call of the primary thread that has returned (result "ok") or thrown
\* (result the error, stage the place that threw).
Ret(m, result, stage) == [m EXCEPT !.pc = "ret", !.result = result, !.stage = stage]
\* One call made to the drive.
DriveCall(op, alias, path, id) == [op |-> op, alias |-> alias, path |-> path, id |-> id]
\* Identity(RandomAlphaNumericString(64)), as the model writes it.
RandomId == [d |-> 0, s |-> 0]

\* password_->string() can be read once the buffer is finalised.
PwReadable(pw) == pw.present /\ pw.finalised

\* SureFile::SureFile
Init ==
  /\ logged_in = FALSE
  /\ password = NoBuf
  /\ confirmation_password = NoBuf
  /\ mounted = FALSE
  /\ pending = EmptyPending
  /\ mutex = "free"
  /\ config = NoFile
  /\ cred = [p \in Paths |-> NoCred]
  /\ main = Idle
  /\ cb = CbIdle
  /\ delivered = [a \in Aliases |-> FALSE]

\* ------------------------------------------------------- password entry
\* SureFile::InsertInput
InsertInput ==
  /\ main.pc = "idle"
  /\ \E input_field \in Fields, c \in Chars, position \in 0..(MaxLen - 1) :
       CASE input_field = "kPassword" ->
              LET buf == IF password.present THEN password ELSE NewPassword
              IN /\ Len(buf.text) < MaxLen
                 /\ password' = PwInsert(buf, position, c)
                 /\ UNCHANGED confirmation_password
         [] input_field = "kConfirmationPassword" ->
              LET buf == IF confirmation_password.present
                         THEN confirmation_password ELSE NewPassword
              IN /\ Len(buf.text) < MaxLen
                 /\ confirmation_password' = PwInsert(buf, position, c)
                 /\ UNCHANGED password
         [] OTHER -> UNCHANGED <<password, confirmation_password>>
  /\ UNCHANGED <<logged_in, mounted, pending, mutex, config, cred, main, cb,
                 delivered>>

\* SureFile::RemoveInput (length 1)
RemoveInput ==
  /\ main.pc = "idle"
  /\ \E input_field \in Fields, position \in 0..(MaxLen - 1) :
       CASE input_field = "kPassword" /\ password.present ->
              /\ password' = PwRemove(password, position)
              /\ UNCHANGED confirmation_password
         [] input_field = "kConfirmationPassword" /\ confirmation_password.present ->
              /\ confirmation_password' = PwRemove(confirmation_password, position)
              /\ UNCHANGED password
         [] OTHER -> UNCHANGED <<password, confirmation_password>>
  /\ UNCHANGED <<logged_in, mounted, pending, mutex, config, cred, main, cb,
                 delivered>>

\* Mutant of ClearInput: the password is emptied and stays finalised.
ClearInput_KeepFinalised ==
  /\ main.pc = "idle"
  /\ password' = [password EXCEPT !.text = <<>>]
  /\ confirmation_password' = [confirmation_password EXCEPT !.text = <<>>]
  /\ UNCHANGED <<logged_in, mounted, pending, mutex, config, cred, main, cb,
                 delivered>>

\* SureFile::ClearInput
ClearInput ==
  /\ main.pc = "idle"
  /\ password' = IF password.present THEN PwClear(password) ELSE password
  /\ confirmation_password' = IF confirmation_password.present
                              THEN PwClear(confirmation_password)
                              ELSE confirmation_password
  /\ UNCHANGED <<logged_in, mounted, pending, mutex, config, cred, main, cb,
                 delivered>>

\* Mutant of ResetPassword: the buffer is emptied and kept.
ResetPassword_Clear(pw) == PwClear(pw)

\* SureFile::ResetPassword / ResetConfirmationPassword
ResetPassword(pw) == NoBuf
ResetConfirmationPassword(cpw) == NoBuf

\* SureFile::FinaliseInput: the error thrown ("none": it returns) and the
\* two buffers afterwards.
FinaliseInput(pw, cpw, login) ==
  IF ~pw.present
  THEN [err |-> "invalid_password", pw |-> pw,
        cpw |-> IF cpw.present THEN ResetConfirmationPassword(cpw) ELSE cpw]
  ELSE IF ~login /\ ~cpw.present
  THEN [err |-> "password_confirmation_failed", pw |-> ResetPassword(pw), cpw |-> cpw]
  ELSE [err |-> "none", pw |-> PwFinalise(pw),
        cpw |-> IF login THEN cpw ELSE PwFinalise(cpw)]

\* SureFile::ConfirmInput
ConfirmInput(pw, cpw) ==
  IF ~PwIsValid(pw)
  THEN [err |-> "invalid_password", pw |-> ResetPassword(pw),
        cpw |-> ResetConfirmationPassword(cpw)]
  ELSE IF pw.text # cpw.text
  THEN [err |-> "password_confirmation_failed", pw |-> ResetPassword(pw),
        cpw |-> ResetConfirmationPassword(cpw)]
  ELSE [err |-> "none", pw |-> pw, cpw |-> cpw]

\* SureFile::CanCreateUser
CanCreateUser == ~logged_in /\ ~config.exists

\* --------------------------------------------------- CreateUser / Login
\* What a call of the primary thread that runs in one step leaves behind.
Finish(m, li, pw, cpw, mt, cfg) ==
  /\ main' = m
  /\ logged_in' = li
  /\ password' = pw
  /\ confirmation_password' = cpw
  /\ mounted' = mt
  /\ config' = cfg
  /\ UNCHANGED <<pending, mutex, cred, cb, delivered>>

\* std::terminate or a failed assert: the process is gone.
Dead(m, stage) == [m EXCEPT !.pc = "dead", !.result = "terminate", !.stage = stage]

\* SureFile::MountDrive.  Where a mount thread already runs, the move
\* assignment to mount_thread_ terminates the process; the WIN32 build has no
\* mount thread and replaces the drive.
MountDrive(was_mounted, win32) ==
  [terminated |-> was_mounted /\ ~win32, mounted |-> TRUE]

\* Mutant of ConfigHasContent: the content is taken for empty.
ConfigHasContent_Never(file) == FALSE

\* SureFile::CreateUser lines 112-114: ReadFile leaves config_content empty
\* when there is no file.
ConfigHasContent(file) == file.exists /\ file.content # <<>>

\* SureFile::CreateUser
CreateUser ==
  /\ main.pc = "idle"
  /\ \E win32 \in BOOLEAN, written \in BOOLEAN :
       LET call == [Idle EXCEPT !.op = "CreateUser"]
           fin == FinaliseInput(password, confirmation_password, FALSE)
           con == ConfirmInput(fin.pw, fin.cpw)
           mnt == MountDrive(mounted, win32)
           did == [call EXCEPT !.drv = <<DriveCall("Mount", "", "", RandomId.d)>>]
       IN IF logged_in
          THEN Finish(Ret(call, "ok", "logged_in"), logged_in, password,
                      confirmation_password, mounted, config)
          ELSE IF fin.err # "none"
          THEN Finish(Ret(call, fin.err, "FinaliseInput"), FALSE, fin.pw, fin.cpw,
                      mounted, config)
          ELSE IF con.err # "none"
          THEN Finish(Ret(call, con.err, "ConfirmInput"), FALSE, con.pw, con.cpw,
                      mounted, config)
          ELSE IF ConfigHasContent(config)
          THEN Finish(Ret(call, "invalid_parameter", "config_content"), FALSE,
                      con.pw, ResetConfirmationPassword(con.cpw), mounted, config)
          ELSE IF mnt.terminated
          THEN Finish(Dead(call, "MountDrive"), FALSE, con.pw,
                      ResetConfirmationPassword(con.cpw), FALSE, config)
          ELSE IF ~written
          THEN Finish(Ret(did, "invalid_parameter", "WriteConfigFile"), FALSE,
                      con.pw, ResetConfirmationPassword(con.cpw), mnt.mounted, config)
          ELSE Finish(Ret(did, "ok", ""), TRUE, con.pw,
                      ResetConfirmationPassword(con.cpw), mnt.mounted, File(ConfigContent(EmptyMap, con.pw)))

\* Mutant of GetIds: whatever the file holds is taken for identities.
GetIds_NoCheck(storage_path, pw, files) == [err |-> "none", ids |-> NoIds]

\* SureFile::GetIds
GetIds(storage_path, pw, files) ==
  LET secure_password == SecurePassword(pw)
      file == files[storage_path]
      serialised_credentials ==
        SymmDecrypt(file, SecureKey(secure_password), SecureIv(secure_password))
      parsed == Parse(serialised_credentials)
  IN IF ~file.exists THEN [err |-> "filesystem_io_error", ids |-> NoIds]
     ELSE IF ~parsed.ok THEN [err |-> "parsing_error", ids |-> NoIds]
     ELSE [err |-> "none", ids |-> parsed.ids]

\* SureFile::InitialiseService
InitialiseService(storage_path, service_alias, service_root_id, drv) ==
  IF ~CheckValid(storage_path, service_alias)
  THEN [err |-> "invalid_service", drv |-> drv]
  ELSE [err |-> "none",
        drv |-> Append(drv, DriveCall("ReInitialiseService", service_alias,
                                      storage_path, service_root_id))]

\* The loop of SureFile::Login over the entries after the first.
RECURSIVE LoginRest(_, _, _, _, _)
LoginRest(keys, service_pairs, pw, files, drv) ==
  IF keys = <<>> THEN [err |-> "none", stage |-> "", drv |-> drv]
  ELSE LET ids == GetIds(Head(keys), pw, files)
           ini == InitialiseService(Head(keys), service_pairs[Head(keys)],
                                    ids.ids.s, drv)
       IN IF ids.err # "none"
          THEN [err |-> ids.err, stage |-> "GetIds", drv |-> drv]
          ELSE IF ini.err # "none"
          THEN [err |-> ini.err, stage |-> "InitialiseService", drv |-> drv]
          ELSE LoginRest(Tail(keys), service_pairs, pw, files, ini.drv)

\* SureFile::Login.  assert(!confirmation_password_) ends the process in a
\* build with assertions and is no code in one without (ndebug).
Login(ndebug) ==
  /\ main.pc = "idle"
  /\ \E win32 \in BOOLEAN :
       LET call == [Idle EXCEPT !.op = "Login"]
           fin == FinaliseInput(password, confirmation_password, TRUE)
           service_pairs == ReadConfigFile(config).map
           keys == SortedKeys(service_pairs)
           mnt == MountDrive(mounted, win32)
           first == GetIds(Head(keys), fin.pw, cred)
           did(id) == [call EXCEPT !.drv = <<DriveCall("Mount", "", "", id)>>]
           ini == InitialiseService(Head(keys), service_pairs[Head(keys)],
                                    first.ids.s, did(first.ids.d).drv)
           rest == LoginRest(Tail(keys), service_pairs, fin.pw, cred, ini.drv)
       IN IF logged_in
          THEN Finish(Ret(call, "ok", "logged_in"), logged_in, password,
                      confirmation_password, mounted, config)
          ELSE IF fin.err # "none"
          THEN Finish(Ret(call, fin.err, "FinaliseInput"), FALSE, fin.pw, fin.cpw,
                      mounted, config)
          ELSE IF fin.cpw.present /\ ~ndebug
          THEN Finish(Dead(call, "assert"), FALSE, fin.pw, fin.cpw, FALSE, config)
          ELSE IF keys = <<>>
          THEN IF ~config.exists \/ config.content = <<>>
               THEN Finish(Ret(call, "filesystem_io_error", "ReadFile"), FALSE,
                           fin.pw, fin.cpw, mounted, config)
               ELSE IF ~CheckConfigFileContent(config.content, fin.pw)
               THEN Finish(Ret(call, "invalid_password", "CheckConfigFileContent"),
                           FALSE, ResetPassword(fin.pw), fin.cpw, mounted, config)
               ELSE IF mnt.terminated
               THEN Finish(Dead(call, "MountDrive"), FALSE, fin.pw, fin.cpw, FALSE,
                           config)
               ELSE Finish(Ret(did(RandomId.d), "ok", ""), TRUE, fin.pw, fin.cpw,
                           mnt.mounted, config)
          ELSE IF first.err # "none"
          THEN Finish(Ret(call, first.err, "GetIds_first"), FALSE, fin.pw, fin.cpw,
                      mounted, config)
          ELSE IF mnt.terminated
          THEN Finish(Dead(call, "MountDrive"), FALSE, fin.pw, fin.cpw, FALSE, config)
          ELSE IF ini.err # "none"
          THEN Finish(Ret([call EXCEPT !.drv = ini.drv], ini.err, "InitialiseService"),
                      FALSE, fin.pw, fin.cpw, mnt.mounted, config)
          ELSE IF rest.err # "none"
          THEN Finish(Ret([call EXCEPT !.drv = rest.drv], rest.err, rest.stage),
                      FALSE, fin.pw, fin.cpw, mnt.mounted, config)
          ELSE Finish(Ret([call EXCEPT !.drv = rest.drv], "ok", ""), TRUE, fin.pw,
                      fin.cpw, mnt.mounted, config)

\* The caller takes the result of its call and is free to make the next.
Return ==
  /\ main.pc = "ret"
  /\ main' = Idle
  /\ UNCHANGED <<logged_in, password, confirmation_password, mounted, pending,
                 mutex, config, cred, cb, delivered>>

\* ----------------------------------------- the pending-additions table
\* Mutant of PendingFound: the lookup's result is not checked.
PendingFound_Unchecked(table, service_alias) == TRUE

\* pending_service_additions_.find(alias) != end()
PendingFound(table, service_alias) == service_alias \in DOMAIN table

\* it->second
PendingAt(table, service_alias) ==
  IF service_alias \in DOMAIN table THEN table[service_alias] ELSE NoIds

\* Mutant of PendingErase: the table is cleared.
PendingErase_Clear(table, service_alias) == EmptyPending

\* pending_service_additions_.erase(it)
PendingErase(table, service_alias) ==
  [x \in DOMAIN table \ {service_alias} |-> table[x]]

\* pending_service_additions_.insert(make_pair(alias, ids)): std::map keeps
\* the entry it already has.
PendingInsert(table, service_alias, ids) ==
  IF service_alias \in DOMAIN table THEN table
  ELSE [x \in DOMAIN table \cup {service_alias} |->
          IF x = service_alias THEN ids ELSE table[x]]

\* Mutant of CatchAll: the error is rethrown as it came.
CatchAll_Rethrow(error) == error

\* catch(...) in SureFile::AddService: what the caller gets for an error
\* thrown inside the try block.
CatchAll(error) == "invalid_service"

\* Mutant of PutIds: the two identities are written in the other order.
PutIds_Swapped(ids, pw) ==
  LET secure_password == SecurePassword(pw)
  IN CredFile(SymmEncrypt(Serialise([d |-> ids.s, s |-> ids.d]),
                          SecureKey(secure_password), SecureIv(secure_password)))

\* SureFile::PutIds: the credential file written for the identities.
PutIds(ids, pw) ==
  LET secure_password == SecurePassword(pw)
  IN CredFile(SymmEncrypt(Serialise(ids), SecureKey(secure_password),
                          SecureIv(secure_password)))

\* SureFile::AddConfigEntry, up to the insert: the error thrown and the map
\* to be written.
AddConfigEntry(file, storage_path, service_alias) ==
  LET service_pairs == ReadConfigFile(file).map
  IN IF storage_path \in DOMAIN service_pairs
     THEN [err |-> "invalid_parameter", map |-> service_pairs]
     ELSE [err |-> "none", map |-> MapPut(service_pairs, storage_path, service_alias)]

\* ------------------------------------------------------------ AddService
\* SureFile::AddService, lines 148-150: the logged_in_ check and CheckValid.
AddService_Begin ==
  /\ main.pc = "idle"
  /\ \E storage_path \in Paths \cup {NoDir}, service_alias \in Aliases \cup {Excluded} :
       LET call == [Idle EXCEPT !.op = "AddService", !.path = storage_path,
                                !.alias = service_alias]
       IN main' = IF ~logged_in THEN Ret(call, "uninitialised", "logged_in")
                  ELSE IF ~CheckValid(storage_path, service_alias)
                  THEN Ret(call, "invalid_service", "CheckValid")
                  ELSE [call EXCEPT !.pc = "as_lock"]
  /\ UNCHANGED <<logged_in, password, confirmation_password, mounted, pending,
                 mutex, config, cred, cb, delivered>>

\* Lines 151-155: the lock is taken and the pending entry looked up.
AddService_Lock ==
  /\ main.pc = "as_lock"
  /\ mutex = "free"
  /\ IF PendingFound(pending, main.alias)
     THEN /\ mutex' = "main"
          /\ main' = [main EXCEPT !.pc = "as_attach", !.ids = PendingAt(pending, main.alias),
                                  !.pend0 = pending]
     ELSE /\ mutex' = "free"
          /\ main' = Ret(main, CatchAll("invalid_parameter"), "find")
  /\ UNCHANGED <<logged_in, password, confirmation_password, mounted, pending,
                 config, cred, cb, delivered>>

\* Line 156: drive_->AddService, which may throw.
AddService_Attach ==
  /\ main.pc = "as_attach"
  /\ \E attached \in BOOLEAN :
       LET told == [main EXCEPT !.drv = Append(main.drv,
                      DriveCall("AddService", main.alias, main.path, 0))]
       IN IF attached
          THEN /\ main' = [told EXCEPT !.pc = "as_putids"]
               /\ UNCHANGED mutex
          ELSE /\ main' = Ret(told, CatchAll("drive_error"), "drive_AddService")
               /\ mutex' = "free"
  /\ UNCHANGED <<logged_in, password, confirmation_password, mounted, pending,
                 config, cred, cb, delivered>>

\* Line 157: PutIds; the password's string() or WriteFile may fail.
AddService_PutIds ==
  /\ main.pc = "as_putids"
  /\ \E written \in BOOLEAN :
       IF PwReadable(password) /\ written
       THEN /\ cred' = [cred EXCEPT ![main.path] = PutIds(main.ids, password)]
            /\ main' = [main EXCEPT !.pc = "as_erase"]
            /\ UNCHANGED mutex
       ELSE /\ main' = Ret(main, CatchAll("invalid_parameter"), "PutIds")
            /\ mutex' = "free"
            /\ UNCHANGED cred
  /\ UNCHANGED <<logged_in, password, confirmation_password, mounted, pending,
                 config, cb, delivered>>

\* Line 158: the pending entry is erased.
AddService_Erase ==
  /\ main.pc = "as_erase"
  /\ pending' = PendingErase(pending, main.alias)
  /\ main' = [main EXCEPT !.pc = "as_config", !.consumed = delivered[main.alias]]
  /\ delivered' = [delivered EXCEPT ![main.alias] = FALSE]
  /\ UNCHANGED <<logged_in, password, confirmation_password, mounted, mutex,
                 config, cred, cb>>

\* Line 164, AddConfigEntry lines 351-357: the config file is read and the
\* entry inserted; a storage path already there throws past the catch.
AddService_Config ==
  /\ main.pc = "as_config"
  /\ LET add == AddConfigEntry(config, main.path, main.alias)
     IN IF add.err # "none"
        THEN /\ main' = Ret(main, add.err, "AddConfigEntry")
             /\ mutex' = "free"
        ELSE /\ main' = [main EXCEPT !.pc = "as_write", !.service_pairs = add.map]
             /\ UNCHANGED mutex
  /\ UNCHANGED <<logged_in, password, confirmation_password, mounted, pending,
                 config, cred, cb, delivered>>

\* AddConfigEntry line 358: WriteConfigFile; the lock goes with the return.
AddService_Write ==
  /\ main.pc = "as_write"
  /\ \E written \in BOOLEAN :
       IF written
       THEN /\ config' = File(ConfigContent(main.service_pairs, password))
            /\ main' = Ret(main, "ok", "")
       ELSE /\ main' = Ret(main, "invalid_parameter", "WriteConfigFile")
            /\ UNCHANGED config
  /\ mutex' = "free"
  /\ UNCHANGED <<logged_in, password, confirmation_password, mounted, pending,
                 cred, cb, delivered>>

\* ------------------------------------------------------ AddServiceFailed
\* SureFile::AddServiceFailed, lines 168-169.
AddServiceFailed_Begin ==
  /\ main.pc = "idle"
  /\ \E service_alias \in Aliases :
       LET call == [Idle EXCEPT !.op = "AddServiceFailed", !.alias = service_alias]
       IN main' = IF ~logged_in THEN Ret(call, "uninitialised", "logged_in")
                  ELSE [call EXCEPT !.pc = "asf_lock"]
  /\ UNCHANGED <<logged_in, password, confirmation_password, mounted, pending,
                 mutex, config, cred, cb, delivered>>

\* Lines 170-176: under the lock, the entry is looked up and erased.
AddServiceFailed_Erase ==
  /\ main.pc = "asf_lock"
  /\ mutex = "free"
  /\ IF PendingFound(pending, main.alias)
     THEN /\ pending' = PendingErase(pending, main.alias)
          /\ main' = [main EXCEPT !.pc = "asf_detach", !.pend0 = pending,
                                  !.consumed = delivered[main.alias]]
          /\ delivered' = [delivered EXCEPT ![main.alias] = FALSE]
     ELSE /\ main' = Ret(main, "invalid_parameter", "find")
          /\ UNCHANGED <<pending, delivered>>
  /\ UNCHANGED <<logged_in, password, confirmation_password, mounted, mutex,
                 config, cred, cb>>

\* Line 177: drive_->RemoveService, which may throw.
AddServiceFailed_Detach ==
  /\ main.pc = "asf_detach"
  /\ \E detached \in BOOLEAN :
       LET told == [main EXCEPT !.drv = Append(main.drv,
                      DriveCall("RemoveService", main.alias, "", 0))]
       IN main' = IF detached THEN Ret(told, "ok", "")
                  ELSE Ret(told, "drive_error", "drive_RemoveService")
  /\ UNCHANGED <<logged_in, password, confirmation_password, mounted, pending,
                 mutex, config, cred, cb, delivered>>

\* ------------------------------------------------- the drive's callbacks
\* The drive calls back only while it is mounted and the process lives.
DriveRuns == mounted /\ main.pc # "dead"

\* SureFile::OnServiceAdded, lines 364-369: under the lock the entry is
\* inserted; then the slot runs.  While the primary thread holds the lock
\* the callback waits.
OnServiceAdded ==
  /\ DriveRuns
  /\ cb.pc = "idle"
  /\ mutex = "free"
  /\ \E service_alias \in Aliases, ids \in IdPairs :
       /\ pending' = PendingInsert(pending, service_alias, ids)
       /\ delivered' = [delivered EXCEPT ![service_alias] = TRUE]
       /\ main' = IF main.alias = service_alias
                  THEN [main EXCEPT !.redelivered = TRUE] ELSE main
  /\ UNCHANGED <<logged_in, password, confirmation_password, mounted, mutex,
                 config, cred, cb>>

\* The first storage path, in key order, whose alias is the given one.
FirstWithAlias(service_pairs, service_alias) ==
  SelectSeq(SortedKeys(service_pairs), LAMBDA k : service_pairs[k] = service_alias)

\* Mutant of OnServiceRemoved: every entry with the alias is erased.
OnServiceRemoved_All(service_pairs, service_alias) ==
  [found |-> \E k \in DOMAIN service_pairs : service_pairs[k] = service_alias,
   map |-> [k \in {x \in DOMAIN service_pairs : service_pairs[x] # service_alias}
              |-> service_pairs[k]]]

\* SureFile::OnServiceRemoved, the loop: the map to write, if any.
OnServiceRemoved(service_pairs, service_alias) ==
  LET hit == FirstWithAlias(service_pairs, service_alias)
  IN IF hit = <<>> THEN [found |-> FALSE, map |-> service_pairs]
     ELSE [found |-> TRUE, map |-> MapErase(service_pairs, Head(hit))]

\* SureFile::OnServiceRenamed, the loop.
OnServiceRenamed(service_pairs, old_service_alias, new_service_alias) ==
  LET hit == FirstWithAlias(service_pairs, old_service_alias)
  IN IF hit = <<>> THEN [found |-> FALSE, map |-> service_pairs]
     ELSE [found |-> TRUE, map |-> MapPut(service_pairs, Head(hit), new_service_alias)]

\* Lines 373-378: OnServiceRemoved reads the config file and erases the
\* matching entry from its copy; with no match the callback is over.
OnServiceRemoved_Read ==
  /\ DriveRuns
  /\ cb.pc = "idle"
  /\ \E service_alias \in Aliases :
       LET r == OnServiceRemoved(ReadConfigFile(config).map, service_alias)
       IN cb' = IF r.found
                THEN [CbIdle EXCEPT !.pc = "osr", !.alias = service_alias,
                                    !.service_pairs = r.map]
                ELSE CbIdle
  /\ UNCHANGED <<logged_in, password, confirmation_password, mounted, pending,
                 mutex, config, cred, main, delivered>>

\* SureFile::WriteConfigFile from a callback: the file afterwards.  The
\* sentinel form needs the password's string(); without it, or when WriteFile
\* fails, the call throws and the file stays.
CallbackWrite(file, service_pairs, pw, written) ==
  IF written /\ (DOMAIN service_pairs # {} \/ PwReadable(pw))
  THEN File(ConfigContent(service_pairs, pw))
  ELSE file

\* Line 379: OnServiceRemoved writes its copy.
OnServiceRemoved_Write ==
  /\ cb.pc = "osr"
  /\ \E written \in BOOLEAN :
       config' = CallbackWrite(config, cb.service_pairs, password, written)
  /\ cb' = CbIdle
  /\ UNCHANGED <<logged_in, password, confirmation_password, mounted, pending,
                 mutex, cred, main, delivered>>

\* Lines 387-390: OnServiceRenamed reads the config file and renames the
\* matching entry in its copy; with no match the callback is over.
OnServiceRenamed_Read ==
  /\ DriveRuns
  /\ cb.pc = "idle"
  /\ \E old_service_alias \in Aliases, new_service_alias \in Aliases :
       LET r == OnServiceRenamed(ReadConfigFile(config).map, old_service_alias,
                                 new_service_alias)
       IN cb' = IF r.found
                THEN [CbIdle EXCEPT !.pc = "osn", !.alias = old_service_alias,
                                    !.new_alias = new_service_alias,
                                    !.service_pairs = r.map]
                ELSE CbIdle
  /\ UNCHANGED <<logged_in, password, confirmation_password, mounted, pending,
                 mutex, config, cred, main, delivered>>

\* Line 391: OnServiceRenamed writes its copy.
OnServiceRenamed_Write ==
  /\ cb.pc = "osn"
  /\ \E written \in BOOLEAN :
       config' = CallbackWrite(config, cb.service_pairs, password, written)
  /\ cb' = CbIdle
  /\ UNCHANGED <<logged_in, password, confirmation_password, mounted, pending,
                 mutex, cred, main, delivered>>

\* ------------------------------------------------------------- teardown
\* SureFile::~SureFile with SureFile::UnmountDrive: whether the drive is
\* still mounted when the object is gone.
Destructor(li, mt) == IF li THEN FALSE ELSE mt

\* The process ends between two calls (or has died) and a new SureFile is
\* constructed over the same files.
Restart ==
  /\ main.pc \in {"idle", "dead"}
  /\ cb.pc = "idle"
  /\ logged_in \/ mounted \/ password.present \/ confirmation_password.present
       \/ main.pc = "dead"
  /\ logged_in' = FALSE
  /\ password' = NoBuf
  /\ confirmation_password' = NoBuf
  /\ mounted' = FALSE
  /\ pending' = EmptyPending
  /\ mutex' = "free"
  /\ main' = Idle
  /\ cb' = CbIdle
  /\ delivered' = [a \in Aliases |-> FALSE]
  /\ UNCHANGED <<config, cred>>

\* The password is entered before login, and the build keeps its assertions.
Next ==
  \/ ~logged_in /\ InsertInput
  \/ ~logged_in /\ RemoveInput
  \/ ~logged_in /\ ClearInput
  \/ CreateUser
  \/ Login(FALSE)
  \/ Return
  \/ AddService_Begin
  \/ AddService_Lock
  \/ AddService_Attach
  \/ AddService_PutIds
  \/ AddService_Erase
  \/ AddService_Config
  \/ AddService_Write
  \/ AddServiceFailed_Begin
  \/ AddServiceFailed_Erase
  \/ AddServiceFailed_Detach
  \/ OnServiceAdded
  \/ OnServiceRemoved_Read
  \/ OnServiceRemoved_Write
  \/ OnServiceRenamed_Read
  \/ OnServiceRenamed_Write
  \/ Restart

Spec == Init /\ [][Next]_vars

\* The calls of the service interface and of the drive, the same in every
\* build.
ServiceStep ==
  \/ Return
  \/ AddService_Begin
  \/ AddService_Lock
  \/ AddService_Attach
  \/ AddService_PutIds
  \/ AddService_Erase
  \/ AddService_Config
  \/ AddService_Write
  \/ AddServiceFailed_Begin
  \/ AddServiceFailed_Erase
  \/ AddServiceFailed_Detach
  \/ OnServiceAdded
  \/ OnServiceRemoved_Read
  \/ OnServiceRemoved_Write
  \/ OnServiceRenamed_Read
  \/ OnServiceRenamed_Write
  \/ Restart

\* The build without assertions (NDEBUG), with the password fields edited at
\* any time, logged in or not.
NextRelease ==
  \/ InsertInput
  \/ RemoveInput
  \/ ClearInput
  \/ CreateUser
  \/ Login(TRUE)
  \/ ServiceStep

SpecRelease == Init /\ [][NextRelease]_vars

\* A SureFile constructed where a config file already exists and is empty.
InitExistingFile ==
  /\ logged_in = FALSE
  /\ password = NoBuf
  /\ confirmation_password = NoBuf
  /\ mounted = FALSE
  /\ pending = EmptyPending
  /\ mutex = "free"
  /\ config = File(<<>>)
  /\ cred = [p \in Paths |-> NoCred]
  /\ main = Idle
  /\ cb = CbIdle
  /\ delivered = [a \in Aliases |-> FALSE]

SpecExistingFile == InitExistingFile /\ [][Next]_vars

\* ------------------------------------------- WriteConfigFile, by character
\* Longest storage path and alias, in characters, handed to WriteConfigFile.
MaxStr == 2
\* The characters of storage paths and aliases: a plain one and the two the
\* mapping line uses as delimiters.
PairChars == {"a", ">", ":"}
Strings == UNION {[1..n -> PairChars] : n \in 1..MaxStr}
\* A std::map as the sequence of its entries in key order; here the
\* mappings of one entry.
OneEntryMaps == {<<[first |-> k, second |-> v]>> : k \in Strings, v \in Strings}

\* The characters of a string as file content.
ChrSeq(str) == [i \in 1..Len(str) |-> Chr(str[i])]

\* karma::format(*(karma::string << '>' << karma::string << ':'), service_pairs)
\* over the entries, each string written as it is.
RECURSIVE FormatEntries(_)
FormatEntries(entries) ==
  IF entries = <<>> THEN <<>>
  ELSE ChrSeq(Head(entries).first) \o <<Chr(">")>>
       \o ChrSeq(Head(entries).second) \o <<Chr(":")>>
       \o FormatEntries(Tail(entries))

\* SureFile::WriteConfigFile for a non-empty mapping: the file written.
WrittenFile(entries) == File(CommentTokens \o FormatEntries(entries))

\* WriteConfigFile(M) is called with a non-empty mapping M.
WriteConfigFile_Entries ==
  /\ \E entries \in OneEntryMaps :
       /\ main' = [Idle EXCEPT !.pc = "ret", !.op = "WriteConfigFile",
                               !.result = "ok", !.service_pairs = entries]
       /\ config' = WrittenFile(entries)
  /\ UNCHANGED <<logged_in, password, confirmation_password, mounted, pending,
                 mutex, cred, cb, delivered>>

NextRender == WriteConfigFile_Entries

SpecRender == Init /\ [][NextRender]_vars

\* ================================================================ claims
InAddCall == main.op \in {"AddService", "AddServiceFailed"}

\* C1: a successful AddService(path, A) or AddServiceFailed(A) has erased an
\* entry that an OnServiceAdded(A) put there after the last erase of A's
\* entry: each success is preceded by a delivery for A that no earlier call
\* has consumed, so two successes for A have a delivery between them.
C1_SuccessConsumesDelivery ==
  (main.pc = "ret" /\ InAddCall /\ main.result = "ok") => main.consumed

\* A successful AddService has returned (and consumed its delivery).
C1_Witness ==
  main.pc = "ret" /\ main.op = "AddService" /\ main.result = "ok" /\ main.consumed

\* C2, as stated: in a logged-in session, once a call of AddService or
\* AddServiceFailed for A has returned (whatever its result) and
\* OnServiceAdded(A) has not run since the call began, the table holds no
\* entry for A.
C2_Original ==
  (/\ main.pc = "ret" /\ InAddCall /\ logged_in
   /\ main.alias \in Aliases /\ ~main.redelivered)
    => main.alias \notin DOMAIN pending

\* C2, amended: the table holds an entry for A exactly when OnServiceAdded(A)
\* has run and no call has since reached its erase: an AddServiceFailed(A)
\* that found the entry, or an AddService(A) that got past the lookup, the
\* drive attach and the credential write.  A call that fails earlier leaves
\* the entry.
C2_EntryIffDeliveredAndNotErased ==
  \A a \in Aliases : (a \in DOMAIN pending) <=> delivered[a]

\* An AddService for A has failed at the drive attach and A's entry is still
\* in the table.
C2_Witness ==
  /\ main.pc = "ret" /\ main.op = "AddService"
  /\ main.stage = "drive_AddService" /\ ~main.redelivered
  /\ main.alias \in DOMAIN pending
  /\ DOMAIN pending # {main.alias}

\* The step of AddService that looks the pending entry up, taken when logged
\* in with a valid path and alias and no entry for the alias.
C3_Case ==
  /\ main.pc = "as_lock" /\ main'.pc # "as_lock"
  /\ logged_in /\ CheckValid(main.path, main.alias)
  /\ main.alias \notin DOMAIN pending

\* C3, as stated: AddService for an alias with no pending entry fails with
\* InvalidParameter.
C3_Original ==
  [][C3_Case => (main'.pc = "ret" /\ main'.result = "invalid_parameter")]_vars

\* C3, amended: AddService for an alias with no pending entry fails with
\* InvalidService (the lookup's invalid_parameter is thrown inside the try
\* block and caught), and changes neither the table nor the files.
C3_NoEntryIsInvalidService ==
  [][C3_Case => /\ main'.pc = "ret" /\ main'.result = "invalid_service"
                /\ main'.drv = <<>>
                /\ UNCHANGED <<pending, config, cred>>]_vars

\* AddService has failed at the lookup.
C3_Witness ==
  /\ main.pc = "ret" /\ main.op = "AddService" /\ main.stage = "find"
  /\ main.result = "invalid_service" /\ logged_in

\* The places of AddService's commit sequence where a failure can arise.
CommitStages == {"find", "drive_AddService", "PutIds", "AddConfigEntry", "WriteConfigFile"}

\* C4: every failure of AddService in its commit sequence (lookup, drive
\* attach, credential write, erase, append to the config file) reaches the
\* caller as InvalidService.
C4_Original ==
  (/\ main.pc = "ret" /\ main.op = "AddService"
   /\ main.stage \in CommitStages /\ main.result # "ok")
    => main.result = "invalid_service"

\* The returning step of a successful AddService.
C5_Case == main.pc = "as_write" /\ main'.pc = "ret" /\ main'.result = "ok"

\* The session key of the password.
KeyOf(pw) == SecureKey(SecurePassword(pw))
IvOf(pw) == SecureIv(SecurePassword(pw))

\* C5: when AddService(path, A) returns successfully, with (d, s) the entry
\* the table held for A when the call looked it up: the drive was told to
\* attach A at path; the credential file under path decrypts, under the
\* session key, to the serialised (d, s); the table is the one the call
\* found less A's entry; and the config file reads back as the mapping
\* AddConfigEntry read plus path -> A (which is the mapping the file held
\* just before the write, unless a callback rewrote the file in between).
C5_SuccessfulAddService ==
  [][C5_Case =>
      LET ids == main.pend0[main.alias]
          read == MapErase(main.service_pairs, main.path)
      IN /\ main'.drv = <<DriveCall("AddService", main.alias, main.path, 0)>>
         /\ cred'[main.path].exists
         /\ SymmDecrypt(cred'[main.path], KeyOf(password), IvOf(password))
              = Serialise(ids)
         /\ Parse(SymmDecrypt(cred'[main.path], KeyOf(password), IvOf(password))).ids
              = ids
         /\ pending' = [x \in DOMAIN main.pend0 \ {main.alias} |-> main.pend0[x]]
         /\ main.path \notin DOMAIN read
         /\ ReadConfigFile(config').map = MapPut(read, main.path, main.alias)
         /\ ~ReadConfigFile(config').error
         /\ ReadConfigFile(config).map = read
              => ReadConfigFile(config').map
                   = MapPut(ReadConfigFile(config).map, main.path, main.alias)]_vars

\* A successful AddService has returned, another alias is still pending and
\* the mapping has two entries.
C5_Witness ==
  /\ main.pc = "ret" /\ main.op = "AddService" /\ main.result = "ok"
  /\ Cardinality(DOMAIN main.pend0) = 2
  /\ Cardinality(DOMAIN pending) = 1
  /\ Cardinality(DOMAIN ReadConfigFile(config).map) = 2

\* C6: AddServiceFailed(A), logged in.  With an entry for A: the step under
\* the lock removes exactly that entry and leaves the other entries and the
\* files alone, and the call then tells the drive to detach A.  With no
\* entry for A: the call fails with InvalidParameter, changes nothing and
\* makes no drive call.
C6_AddServiceFailedFrame ==
  [][/\ (main.pc = "asf_lock" /\ main'.pc # "asf_lock" /\ main.alias \in DOMAIN pending)
          => /\ logged_in
             /\ main'.pc = "asf_detach"
             /\ pending' = [x \in DOMAIN pending \ {main.alias} |-> pending[x]]
             /\ UNCHANGED <<config, cred>>
     /\ (main.pc = "asf_lock" /\ main'.pc # "asf_lock" /\ main.alias \notin DOMAIN pending)
          => /\ main'.pc = "ret" /\ main'.result = "invalid_parameter"
             /\ main'.drv = <<>>
             /\ UNCHANGED <<pending, config, cred, logged_in, mounted, mutex>>
     /\ (main.pc = "asf_detach" /\ main'.pc # "asf_detach")
          => /\ main'.pc = "ret"
             /\ main'.drv = <<DriveCall("RemoveService", main.alias, "", 0)>>
             /\ pending' = pending
             /\ UNCHANGED <<config, cred>>]_vars

\* A successful AddServiceFailed has returned; it found two entries and left
\* the other one, and the mapping is not empty.
C6_Witness ==
  /\ main.pc = "ret" /\ main.op = "AddServiceFailed" /\ main.result = "ok"
  /\ Cardinality(DOMAIN main.pend0) = 2
  /\ DOMAIN pending = DOMAIN main.pend0 \ {main.alias}
  /\ DOMAIN ReadConfigFile(config).map # {}

\* A call of CreateUser or Login has returned or thrown.
SessionCallReturned == main.pc = "ret" /\ main.op \in {"CreateUser", "Login"}

\* C7, as stated: after CreateUser or Login returns, on success and on every
\* failure path, the password buffer no longer exists.
C7_Original == SessionCallReturned => ~password.present

\* C7, amended: after CreateUser or Login returns, the password buffer no
\* longer exists exactly when the call failed with InvalidPassword or
\* PasswordConfirmationFailed; on success and on every other failure it is
\* still there.
C7_DiscardedOnPasswordErrors ==
  SessionCallReturned =>
    (~password.present
       <=> main.result \in {"invalid_password", "password_confirmation_failed"})

\* Login has failed at the sentinel check and the buffer is gone.
C7_Witness ==
  /\ main.pc = "ret" /\ main.op = "Login"
  /\ main.result = "invalid_password" /\ main.stage = "CheckConfigFileContent"
  /\ ~password.present

\* The texts a password buffer can hold.
Texts == UNION {[1..n -> Chars] : n \in 0..MaxLen}
\* The config file CreateUser leaves under the password with this text.
SentinelFile(text) == File(ConfigContent(EmptyMap, [NewPassword EXCEPT !.text = text]))

\* Login is called with a password entered and no confirmation buffer, on a
\* session that is not logged in.
LoginStep ==
  /\ main.pc = "idle" /\ main'.op = "Login"
  /\ ~logged_in /\ password.present /\ ~confirmation_password.present

\* C8: the config file holds only the sentinel line written under P, and
\* Login is called on a fresh session.  With P entered it succeeds, mounts
\* the drive and sets logged_in; with any other password it fails with
\* InvalidPassword, discards the entered password, makes no drive call,
\* mounts nothing and leaves logged_in false.
C8_LoginAgainstSentinel ==
  [][\A P \in Texts :
       (LoginStep /\ ~mounted /\ config = SentinelFile(P)) =>
         /\ main'.pc = "ret"
         /\ IF password.text = P
            THEN /\ main'.result = "ok" /\ logged_in' /\ mounted'
                 /\ password'.present
            ELSE /\ main'.result = "invalid_password"
                 /\ ~password'.present
                 /\ main'.drv = <<>> /\ ~mounted' /\ ~logged_in']_vars

\* Login with another password than the sentinel's has failed.
C8_Witness ==
  /\ main.pc = "ret" /\ main.op = "Login" /\ main.result = "invalid_password"
  /\ main.stage = "CheckConfigFileContent"
  /\ \E P \in Texts : config = SentinelFile(P)
  /\ ~password.present /\ ~mounted /\ ~logged_in

\* The first entry of the mapping the config file holds.
FirstPath(file) == Head(SortedKeys(ReadConfigFile(file).map))

\* C9: the config file holds at least one entry and the credential file of
\* its first entry was written under another password than the one entered.
\* Login fails at GetIds of that entry, having made no drive call (no mount,
\* no service registration); logged_in stays false.
C9_WrongPasswordFailsBeforeMount ==
  [][(/\ LoginStep
      /\ ReadConfigFile(config).map # EmptyMap
      /\ cred[FirstPath(config)].exists
      /\ cred[FirstPath(config)].key # KeyOf(password)) =>
        /\ main'.pc = "ret" /\ main'.result # "ok"
        /\ main'.stage = "GetIds_first"
        /\ main'.drv = <<>>
        /\ mounted' = mounted /\ ~logged_in']_vars

\* Login has failed at GetIds of the first entry, whose credential file is
\* there but was not written under the entered password.
C9_Witness ==
  /\ main.pc = "ret" /\ main.op = "Login" /\ main.stage = "GetIds_first"
  /\ main.result = "parsing_error"
  /\ cred[FirstPath(config)].exists
  /\ cred[FirstPath(config)].key # KeyOf(password)
  /\ ~mounted /\ ~logged_in

\* CreateUser is called while not logged in and the config file has content.
C10_Case ==
  /\ main.pc = "idle" /\ main'.op = "CreateUser"
  /\ ~logged_in /\ config.exists /\ config.content # <<>>

\* C10, as stated: that call fails with InvalidParameter.
C10_Original == [][C10_Case => main'.result = "invalid_parameter"]_vars

\* The two passwords pass FinaliseInput(false) and ConfirmInput.
PasswordsPass ==
  /\ password.present /\ confirmation_password.present
  /\ PwIsValid(password) /\ password.text = confirmation_password.text

\* C10, amended: that call always fails, changes neither the config file nor
\* the drive and leaves logged_in false; it fails with InvalidParameter
\* exactly when the password and its confirmation pass validation, and with
\* InvalidPassword or PasswordConfirmationFailed otherwise.
C10_ExistingConfigFailsAfterValidation ==
  [][C10_Case =>
       /\ main'.pc = "ret"
       /\ main'.result \in {"invalid_parameter", "invalid_password",
                             "password_confirmation_failed"}
       /\ main'.result = "invalid_parameter" <=> PasswordsPass
       /\ main'.drv = <<>>
       /\ UNCHANGED <<config, mounted>> /\ ~logged_in']_vars

\* CreateUser has failed on the content of the config file.
C10_Witness ==
  /\ main.pc = "ret" /\ main.op = "CreateUser"
  /\ main.result = "invalid_parameter" /\ main.stage = "config_content"
  /\ ~logged_in /\ config.exists /\ config.content # <<>>

\* C11: whenever CreateUser or Login has raised InvalidPassword or
\* PasswordConfirmationFailed, neither the password buffer nor the
\* confirmation buffer exists.
C11_Original ==
  (SessionCallReturned
     /\ main.result \in {"invalid_password", "password_confirmation_failed"})
    => (~password.present /\ ~confirmation_password.present)

\* The first line of a file, without its terminator.
FirstLine(file) == GetLines(file.content, 1, <<>>)[1]

\* OnServiceRemoved writes the config file.
RemovedWrites == cb.pc = "osr" /\ cb'.pc = "idle" /\ config' # config

\* C12, as stated, for the first line: a write of OnServiceRemoved leaves
\* the first line of the config file exactly as it was, whatever the
\* mapping.
C12_Original == [][RemovedWrites => FirstLine(config') = FirstLine(config)]_vars

\* C12, amended: OnServiceRemoved(alias) erases from the mapping it reads at
\* most one entry, one whose alias is the given one, and keeps every other
\* entry; what it writes reads back as that mapping.  The first line is
\* the comment line afterwards while an entry remains; when the erased entry
\* was the last one the file becomes the sentinel line, whose first line is
\* not the comment line.
C12_RemovesOneEntry ==
  [][/\ (cb.pc = "idle" /\ cb'.pc = "osr") =>
          LET read == ReadConfigFile(config).map
          IN \E k \in DOMAIN read :
               /\ read[k] = cb'.alias
               /\ cb'.service_pairs = MapErase(read, k)
     /\ RemovedWrites =>
          /\ ReadConfigFile(config').map = cb.service_pairs
          /\ IF cb.service_pairs # EmptyMap
             THEN FirstLine(config') = <<Chr(kConfigFileComment[1])>>
             ELSE /\ FirstLine(config') # <<Chr(kConfigFileComment[1])>>
                  /\ config' = SentinelFile(password.text)]_vars

\* OnServiceRemoved has erased the last entry of the mapping from its copy
\* and is about to write; the file still has the comment line and the entry.
C12_Witness ==
  /\ cb.pc = "osr" /\ cb.service_pairs = EmptyMap
  /\ Cardinality(DOMAIN ReadConfigFile(config).map) = 1
  /\ FirstLine(config) = <<Chr(kConfigFileComment[1])>>

\* C13, the rendering: the file written by WriteConfigFile(M) for a
\* non-empty mapping M, whose paths and aliases may hold '>' and ':', is
\* written for no other mapping, so that reading it can yield exactly M.
C13_Original ==
  main.op = "WriteConfigFile" =>
    \A entries \in OneEntryMaps :
      entries # main.service_pairs => WrittenFile(entries) # config

\* The primary thread is about to make, or is inside, a drive attach or
\* detach call, a credential file write, or a config file read or write.
InDriveOrFileStep ==
  main.pc \in {"as_attach", "as_putids", "as_config", "as_write", "asf_detach"}

\* C14: the mutex of the pending table is never held while a drive attach or
\* detach call, a credential file write or a config file read or write is
\* in progress.
C14_Original == InDriveOrFileStep => mutex = "free"

\* OnServiceRenamed writes the config file.
RenamedWrites == cb.pc = "osn" /\ cb'.pc = "idle" /\ config' # config

\* C15, for an appended entry: OnServiceRenamed removes nothing, so every
\* storage path the persisted mapping holds, the ones appended by a
\* successful AddService among them, is still in the mapping after
\* OnServiceRenamed has written the file, under every interleaving.
C15_Original ==
  [][RenamedWrites =>
       DOMAIN ReadConfigFile(config).map \subseteq DOMAIN ReadConfigFile(config').map]_vars

\* C16, for the pending entry and the drive: when AddService has raised an
\* error, the call has not erased the pending entry of its alias, and it
\* has attached no service to the drive (it made no drive call, or the one it
\* made is the one that failed).
C16_Original ==
  (main.pc = "ret" /\ main.op = "AddService" /\ main.result # "ok") =>
    /\ ~main.consumed
    /\ main.stage # "drive_AddService" => main.drv = <<>>

\* C17: whenever no CreateUser or Login call is in progress (in the model
\* each runs in one step) and the process is alive, the drive is mounted if
\* and only if logged_in is true.
C17_Original == main.pc # "dead" => (mounted <=> logged_in)

\* C18: within one logged-in session, with the password fields edited at
\* any time.  A call that logs in leaves a readable password; while logged
\* in, a readable password is the one of the step before, so it is always
\* the one that logged in; every credential file written is encrypted under
\* the key and iv of that password, and so is every sentinel line written
\* to the config file.  (After ClearInput the password is not readable
\* and the session writes neither.)
C18_WritesUnderLoginKey ==
  [][/\ (~logged_in /\ logged_in') =>
          /\ PwReadable(password')
          /\ config' # config => config' = SentinelFile(password'.text)
     /\ (logged_in /\ logged_in' /\ PwReadable(password')) => password' = password
     /\ \A p \in Paths :
          cred'[p] # cred[p] =>
            /\ logged_in /\ PwReadable(password) /\ password' = password
            /\ cred'[p].key = KeyOf(password) /\ cred'[p].iv = IvOf(password)
     /\ (logged_in /\ config' # config /\ ReadConfigFile(config').map = EmptyMap) =>
          /\ PwReadable(password) /\ password' = password
          /\ config' = SentinelFile(password.text)]_vars

\* Logged in, the password was cleared and a confirmation typed; an
\* AddService has then failed at its credential write, and the credential
\* file written earlier in the session is still there.
C18_Witness ==
  /\ logged_in /\ password.present /\ ~PwReadable(password)
  /\ confirmation_password.present
  /\ main.pc = "ret" /\ main.op = "AddService" /\ main.stage = "PutIds"
  /\ \E p \in Paths : cred[p].exists

\* C19: in the build that keeps its assertions, the assertion of Login that
\* no confirmation password buffer exists never fails: no execution ends
\* the process there.
C19_Original == ~(main.pc = "dead" /\ main.op = "Login" /\ main.stage = "assert")

\* C20: CreateUser completes successfully (mounts a drive, writes the config
\* file and sets logged_in) only from states where CanCreateUser returns
\* true, so that it never overwrites an existing config file.
C20_Original ==
  [][(main.pc = "idle" /\ main'.op = "CreateUser" /\ ~logged_in /\ logged_in')
       => CanCreateUser]_vars

====
